---------------------------- MODULE Spec2Model ----------------------------
(***************************************************************************)
(* Model of ArrayStream (src/unnamed/part_002): a Writable that serializes *)
(* the chunks pushed to it into JSON-array shard files, on the local file  *)
(* system or through an S3 managed upload, opening a new shard once        *)
(* config.maxItems items have been written to the current one.             *)
(*                                                                         *)
(* Bytes are sequences of one-character strings.  A key is modelled by its *)
(* index (the value of fileCount it was formatted from).  The stream       *)
(* callbacks the class registers (write, end, upload, promise              *)
(* continuations) wait in the FIFO queue `pending` until the event loop    *)
(* runs them.  The Writable base class is modelled by what it does with    *)
(* the callback it hands to _write: one shared onwrite function that       *)
(* completes whichever write is in flight.                                 *)
(***************************************************************************)
EXTENDS Integers, Sequences, FiniteSets, TLC

VARIABLES
    config,       \* validated constructor arguments (this.config)
    posixAppend,  \* platform: does a positional write on an O_APPEND file honour the position
    phase,        \* "new" before the constructor ran, then "live" or "threw"
    sep,          \* this.sep
    count,        \* this.count
    fileCount,    \* this.fileCount
    key,          \* this.key, as the index it was formatted from
    files,        \* this.files
    destroyed,    \* this.destroyed
    outstream,    \* this.outstream
    s3,           \* this.s3: key of the ManagedUpload created by the last remote open
    store,        \* the target: local folder or bucket, key index -> file/object
    pending,      \* callbacks registered on streams and promises, in firing order
    writing,      \* Writable: a _write is in flight (state.writing)
    cur,          \* Writable: the item whose _write is in flight
    ending,       \* Writable: end() was called
    finalCalled,  \* Writable: _final was called
    finished,     \* Writable: 'finish' was emitted
    pushed,       \* history: the chunks handed to _write, in order
    completion,   \* history: what the Writable was told about each item
    cbCalls,      \* history: how often each _write's cb argument was invoked
    multipleCb,   \* history: a cb was invoked while no write was in flight
    wrote,        \* history: key index -> items whose bytes reached that shard
    opened,       \* history: every open, with whether the key existed then
    sinkOps,      \* history: number of stat probes, opens, writes on the target
    released,     \* history: number of sinks released by outstream.destroy()
    failedItems,  \* history: callers whose sink close was rejected (0: _final, -1: a direct flush)
    args,         \* args.s3.keyPattern as the caller passed it
    keyPattern,   \* this.config.s3.keyPattern
    keyText,      \* this.key, as text
    secondClose,  \* history: the promise of a second closeArrayStream() call
    highWaterMark, \* bytes a PassThrough takes before a reader must consume them
    props,        \* TawkifyFormListInput: the props of the mounted component
    form          \* TawkifyFormListInput: list, input and err state, and what the handlers did

vars == <<config, posixAppend, phase, sep, count, fileCount, key, files,
          destroyed, outstream, s3, store, pending, writing, cur, ending,
          finalCalled, finished, pushed, completion, cbCalls, multipleCb,
          wrote, opened, sinkOps, released, failedItems, args, keyPattern,
          keyText, secondClose, highWaterMark, props, form>>

---------------------------------------------------------------------------
(* Bounds *)
MaxPush == 3          \* items pushed in one run
MaxItemsBound == 2    \* largest config.maxItems tried

KeyMax == MaxPush + 2 \* one key per push plus the keys skipped by the probe
Keys == 0..KeyMax

---------------------------------------------------------------------------
(* Chunks and their bytes *)

\* "a": the string 'a';  "n42": the number 42;  "circ": an object that
\* references itself (JSON.stringify throws on it).
Chunks == {"a", "n42", "circ"}

SEPARATOR == <<",">>
OPEN_BRACKET == <<"[">>
CLOSE_BRACKET == <<"]", "\n">>

\* typeof chunk == 'string' || Buffer.isBuffer(chunk)
isString(c) == c = "a"

stringifyThrows(c) == c = "circ"

\* JSON.stringify(chunk), where it returns
stringify(c) == IF c = "n42" THEN <<"4", "2">> ELSE <<"a">>

\* String(chunk): what `this.sep + chunk` appends for a chunk left unconverted
coerce(c) ==
    IF c = "circ"
    THEN <<"[", "o", "b", "j", "e", "c", "t", " ", "O", "b", "j", "e", "c", "t", "]">>
    ELSE IF c = "n42" THEN <<"4", "2">> ELSE <<"a">>

\* The chunk as _write holds it after the conversion block
convert(c) ==
    IF ~isString(c) /\ ~stringifyThrows(c) THEN stringify(c) ELSE coerce(c)

\* validateChunk(chunk).err is set: the schema admits strings and objects only
validateChunk(c) == c = "n42"

RECURSIVE joinItems(_)
joinItems(items) ==
    IF items = <<>> THEN <<>>
    ELSE IF Len(items) = 1 THEN Head(items)
    ELSE Head(items) \o SEPARATOR \o joinItems(Tail(items))

\* The JSON array file holding the given serialized items
encodeArray(items) == OPEN_BRACKET \o joinItems(items) \o CLOSE_BRACKET

texts(cs) == [i \in 1..Len(cs) |-> convert(cs[i])]

Ceil(n, k) == (n + k - 1) \div k

---------------------------------------------------------------------------
(* Key text *)

\* config.s3.fileType
fileType == <<"j", "s", "o", "n">>

\* joi .lowercase() on the characters that occur in the patterns tried
lowercase(p) == [j \in 1..Len(p) |-> IF p[j] = "S" THEN "s" ELSE p[j]]

endsWith(p, x) ==
    Len(p) >= Len(x) /\ SubSeq(p, Len(p) - Len(x) + 1, Len(p)) = x

\* p.replace(new RegExp(`.${fileType}$`), ''): the dot of the expression
\* matches any character, so one character and the file type go
stripExtension(p) ==
    IF Len(p) > Len(fileType) /\ endsWith(p, fileType)
    THEN SubSeq(p, 1, Len(p) - Len(fileType) - 1)
    ELSE p

\* constructor: if (keyPattern.endsWith('.' + fileType)) keyPattern = ...
trimPattern(p) ==
    IF endsWith(p, <<".">> \o fileType) THEN stripExtension(p) ELSE p

Digits == <<"0", "1", "2", "3", "4", "5", "6", "7", "8", "9">>

\* Number.prototype.toString()
RECURSIVE toString(_)
toString(n) ==
    IF n < 10 THEN <<Digits[n + 1]>>
    ELSE toString(n \div 10) \o <<Digits[(n % 10) + 1]>>

\* String.prototype.padStart(n, ch)
padStart(str, n, ch) ==
    IF Len(str) >= n THEN str ELSE [j \in 1..(n - Len(str)) |-> ch] \o str

\* where /\$\$/ matches
placeholders(p) == {j \in 1..(Len(p) - 1) : p[j] = "$" /\ p[j + 1] = "$"}

\* p.replace(/\$\$/, r): the first match only
replacePlaceholder(p, r) ==
    IF placeholders(p) = {} THEN p
    ELSE LET j == CHOOSE x \in placeholders(p) : \A y \in placeholders(p) : x <= y
         IN  SubSeq(p, 1, j - 1) \o r \o SubSeq(p, j + 2, Len(p))

\* the value incrementKey assigns to this.key when fileCount is n
formatKey(p, n) ==
    replacePlaceholder(p, padStart(toString(n), 4, "0")) \o <<".">> \o fileType

---------------------------------------------------------------------------
(* Streams *)

NoStream == [kind |-> "null", key |-> 0, pos |-> 0, buf |-> <<>>, ended |-> FALSE]
Absent == [exists |-> FALSE, data |-> <<>>]
File(d) == [exists |-> TRUE, data |-> d]

\* fs.createWriteStream(path): flags 'w', truncates or creates
fsStreamW(k) == [kind |-> "w", key |-> k, pos |-> 0, buf |-> <<>>, ended |-> FALSE]
\* fs.createWriteStream(path, {flags: 'a+', start})
fsStreamA(k, start) == [kind |-> "a+", key |-> k, pos |-> start, buf |-> <<>>, ended |-> FALSE]
\* the default highWaterMark of a stream of bytes, in bytes
HIGH_WATER_MARK == 16384

\* new PassThrough()
passThrough(k) == [kind |-> "pass", key |-> k, pos |-> 0, buf |-> <<>>, ended |-> FALSE]

\* pwrite(data, bytes, pos) where the position is honoured
writeAt(data, bytes, pos) ==
    SubSeq(data, 1, pos) \o bytes \o SubSeq(data, pos + Len(bytes) + 1, Len(data))


---------------------------------------------------------------------------
(* The writer's state as one record, so that a handler is the composition *)
(* of the calls it makes.                                                  *)

This ==
    [phase |-> phase, sep |-> sep, count |-> count, fileCount |-> fileCount,
     key |-> key, files |-> files, destroyed |-> destroyed,
     outstream |-> outstream, s3 |-> s3, store |-> store, pending |-> pending,
     writing |-> writing, cur |-> cur, ending |-> ending,
     finalCalled |-> finalCalled, finished |-> finished, pushed |-> pushed,
     completion |-> completion, cbCalls |-> cbCalls, multipleCb |-> multipleCb,
     wrote |-> wrote, opened |-> opened, sinkOps |-> sinkOps,
     released |-> released, failedItems |-> failedItems,
     keyPattern |-> keyPattern, keyText |-> keyText,
     secondClose |-> secondClose]

Becomes(s) ==
    /\ phase' = s.phase /\ sep' = s.sep /\ count' = s.count
    /\ fileCount' = s.fileCount /\ key' = s.key /\ files' = s.files
    /\ destroyed' = s.destroyed /\ outstream' = s.outstream /\ s3' = s.s3
    /\ store' = s.store /\ pending' = s.pending /\ writing' = s.writing
    /\ cur' = s.cur /\ ending' = s.ending /\ finalCalled' = s.finalCalled
    /\ finished' = s.finished /\ pushed' = s.pushed
    /\ completion' = s.completion /\ cbCalls' = s.cbCalls
    /\ multipleCb' = s.multipleCb /\ wrote' = s.wrote /\ opened' = s.opened
    /\ sinkOps' = s.sinkOps /\ released' = s.released
    /\ failedItems' = s.failedItems
    /\ keyPattern' = s.keyPattern /\ keyText' = s.keyText
    /\ secondClose' = s.secondClose
    /\ UNCHANGED <<config, posixAppend, args, highWaterMark, props, form>>

\* Writable's onwrite, the cb argument of _write(chunk, encoding, cb): it
\* completes the write in flight, whichever item's _write invokes it.
cb(s, i, err) ==
    LET t == [s EXCEPT !.cbCalls[i] = @ + 1]
    IN  IF t.writing
        THEN [t EXCEPT !.writing = FALSE,
                       !.completion[t.cur] = IF err THEN "err" ELSE "ok"]
        ELSE [t EXCEPT !.multipleCb = TRUE]

incrementKey(s) ==
    [s EXCEPT !.key = s.fileCount,
              !.keyText = formatKey(s.keyPattern, s.fileCount),
              !.fileCount = @ + 1]

incrementCount(s) == [s EXCEPT !.count = @ + 1]

resetCount(s) == [s EXCEPT !.count = 0]

getTotalCount(s) ==
    IF Len(s.files) > 1
    THEN (Len(s.files) - 1) * config.maxItems + s.count
    ELSE s.count

\* stream.write(bytes): the bytes reach the sink unless the stream has ended
sinkWrite(s, bytes) ==
    LET o == s.outstream
        d == s.store[o.key].data
    IN  IF o.ended THEN s
        ELSE IF o.kind = "pass"
        THEN [s EXCEPT !.outstream.buf = @ \o bytes]
        ELSE IF o.kind = "a+" /\ posixAppend
        THEN [s EXCEPT !.store[o.key] = File(writeAt(d, bytes, o.pos)),
                       !.outstream.pos = @ + Len(bytes),
                       !.sinkOps = @ + 1]
        ELSE [s EXCEPT !.store[o.key] = File(d \o bytes),
                       !.outstream.pos = @ + Len(bytes),
                       !.sinkOps = @ + 1]

\* A PassThrough nobody reads from holds the callback of the write that
\* brings its buffer to highWaterMark: the managed upload that would read
\* it is created by openOutstream and started only by this.s3.promise().
full(o) == o.kind = "pass" /\ Len(o.buf) >= highWaterMark

\* Mutant of probeFreeKey: every key the probe meets is pushed to files
RECURSIVE probeFreeKeyListing(_)
probeFreeKeyListing(s) ==
    IF ~config.local THEN s
    ELSE IF s.store[s.key].exists
    THEN probeFreeKeyListing([incrementKey(s) EXCEPT !.sinkOps = @ + 1,
                                                     !.files = Append(@, s.key)])
    ELSE [s EXCEPT !.sinkOps = @ + 1]

\* fs.statSync(params.filePath) loop of create mode.  In remote mode
\* params.filePath is undefined: statSync throws at once and nothing is probed.
RECURSIVE probeFreeKey(_)
probeFreeKey(s) ==
    IF ~config.local THEN s
    ELSE IF s.store[s.key].exists
    THEN probeFreeKey([incrementKey(s) EXCEPT !.sinkOps = @ + 1])
    ELSE [s EXCEPT !.sinkOps = @ + 1]

\* The byte read at size - 3 decides the separator
useSep(data) ==
    IF Len(data) >= 3
    THEN ~(data[Len(data) - 2] = "[" \/ data[Len(data) - 2] = ",")
    ELSE FALSE

\* this.files.push, then the append stream if the file exists and can be
\* reopened, else the 'w' stream and its opening bracket
openLocal(s) ==
    LET k == s.key
        f == s.store[k]
        t == [s EXCEPT !.files = Append(@, k),
                       !.opened = Append(@, [key |-> k, existed |-> f.exists]),
                       !.sinkOps = @ + 1]
    IN  IF ~config.overwrite /\ f.exists /\ Len(f.data) >= 2
        THEN [t EXCEPT !.outstream = fsStreamA(k, Len(f.data) - 2),
                       !.sep = IF useSep(f.data) THEN SEPARATOR ELSE <<>>]
        ELSE [t EXCEPT !.outstream = fsStreamW(k),
                       !.store[k] = File(OPEN_BRACKET),
                       !.sep = <<>>]

\* this.files.push, a PassThrough and the ManagedUpload reading from it
openRemote(s) ==
    LET k == s.key
    IN  [s EXCEPT !.files = Append(@, k),
                  !.opened = Append(@, [key |-> k, existed |-> s.store[k].exists]),
                  !.outstream = passThrough(k),
                  !.s3 = k]

openOutstream(s) ==
    LET p == IF ~config.append /\ ~config.overwrite THEN probeFreeKey(s) ELSE s
    IN  IF config.local THEN openLocal(p) ELSE openRemote(p)

---------------------------------------------------------------------------
(* Handlers *)

Entry(op, i, c, final) == [op |-> op, item |-> i, chunk |-> c, final |-> final]

\* this.outstream.write(this.sep + chunk, () => {...}); a null outstream
\* makes the call throw
writeItem(s, i, c) ==
    LET o == s.outstream
        t == sinkWrite(s, s.sep \o convert(c))
        u == [t EXCEPT !.wrote[o.key] = IF o.ended THEN @ ELSE Append(@, i)]
    IN  IF ~o.ended /\ full(t.outstream)
        THEN u
        ELSE [u EXCEPT !.pending = Append(@, Entry("write", i, c, FALSE))]

\* the write callback of _write: () => { if (!this.sep) ...; incrementCount(); cb() }
writeCallback(s, i) ==
    cb(incrementCount([s EXCEPT !.sep = IF @ = <<>> THEN SEPARATOR ELSE @]), i, FALSE)

\* if (this.outstream) this.outstream.destroy()
destroyOutstream(s) ==
    IF s.outstream.kind # "null" THEN [s EXCEPT !.released = @ + 1] ELSE s

\* who awaits a flush: _final (caller 0) or a direct caller of flushOutstream
thenOf(i) == IF i = 0 THEN "finalThen" ELSE "flushThen"

\* the closure cb of resetOutstream, then resolve(): the continuation
\* registered with .then runs later
resetOutstreamCb(s, final, i, c) ==
    LET d == destroyOutstream(s)
    IN  IF ~final
        THEN LET t == openOutstream(incrementKey(resetCount(d)))
             IN  [t EXCEPT !.pending = Append(@, Entry("then", i, c, FALSE))]
        ELSE [d EXCEPT !.outstream = NoStream,
                       !.pending = Append(@, Entry(thenOf(i), i, c, TRUE))]

\* Mutant of resetOutstream: the closure cb runs without waiting for end
resetOutstreamNoWait(s, final, i, c) ==
    IF s.outstream.kind # "null"
    THEN resetOutstreamCb([sinkWrite(s, CLOSE_BRACKET) EXCEPT !.outstream.ended = TRUE],
                          final, i, c)
    ELSE resetOutstreamCb(s, final, i, c)

resetOutstream(s, final, i, c) ==
    IF s.outstream.kind # "null"
    THEN LET t == sinkWrite(s, CLOSE_BRACKET)
             u == [t EXCEPT !.outstream.ended = TRUE]
         IN  IF ~s.outstream.ended /\ full(t.outstream)
             THEN u
             ELSE [u EXCEPT !.pending = Append(@, Entry("end", i, c, final))]
    ELSE resetOutstreamCb(s, final, i, c)

\* _write, conversion block: catch (err) { cb(new Error(err)) } and no return
stringifyFailed(s, i) == cb(s, i, TRUE)

\* _write, from `try {` on
writeOrRotate(s, i, c) ==
    IF s.count >= config.maxItems
    THEN resetOutstream(s, FALSE, i, c)
    ELSE IF s.outstream.kind = "null"
    THEN cb(s, i, TRUE)
    ELSE writeItem(s, i, c)

\* Mutant of validationFailed: the error is reported and, the return missing,
\* the chunk goes on to be written
validationFailedNoReturn(s, i) == writeOrRotate(cb(s, i, TRUE), i, s.pushed[i])

\* _write, validation branch: if (err) return cb(new Error(err))
validationFailed(s, i) == cb(s, i, TRUE)

_write(s, c) ==
    LET i  == Len(s.pushed) + 1
        s0 == [s EXCEPT !.pushed = Append(@, c),
                        !.completion = Append(@, "pending"),
                        !.cbCalls = Append(@, 0),
                        !.writing = TRUE, !.cur = i]
        sa == IF s0.destroyed THEN cb(s0, i, FALSE) ELSE s0
        sb == IF config.lazy /\ sa.outstream.kind = "null"
              THEN openOutstream(sa) ELSE sa
    IN  IF config.schema /\ validateChunk(c)
        THEN validationFailed(sb, i)
        ELSE LET sc == IF ~isString(c) /\ stringifyThrows(c)
                       THEN stringifyFailed(sb, i) ELSE sb
             IN  writeOrRotate(sc, i, c)

\* flushOutstream(final) called by caller i (0: _final, -1: user code)
flushOutstream(s, final, i) ==
    IF s.destroyed
    THEN [s EXCEPT !.pending = Append(@, Entry(thenOf(i), i, "a", TRUE))]
    ELSE resetOutstream([s EXCEPT !.destroyed = IF final THEN TRUE ELSE @],
                        final, i, "a")

_final(s) == flushOutstream([s EXCEPT !.finalCalled = TRUE], TRUE, 0)

closeArrayStream(s) == IF s.destroyed THEN s ELSE [s EXCEPT !.ending = TRUE]

\* Mutant of initFields: the first sink is opened whatever config.lazy says
initFieldsEager(s) ==
    openOutstream(incrementKey([s EXCEPT !.phase = "live", !.sep = <<>>,
                                         !.count = 0, !.fileCount = 0,
                                         !.files = <<>>, !.destroyed = FALSE,
                                         !.outstream = NoStream]))

\* closeArrayStream() called once more after end() was called: on a
\* destroyed writer an already resolved promise, otherwise end() again, which
\* an ending Writable ignores, and a promise that waits for 'finish'
closeArrayStreamAgain(s) ==
    [s EXCEPT !.secondClose = IF s.destroyed THEN "resolved" ELSE "onFinish"]

\* The constructor from `this.sep = ''` on: the fields, the first key and,
\* unless lazy, the first open
initFields(s) ==
    LET t == incrementKey([s EXCEPT !.phase = "live", !.sep = <<>>,
                                    !.count = 0, !.fileCount = 0,
                                    !.files = <<>>, !.destroyed = FALSE,
                                    !.outstream = NoStream])
    IN  IF ~config.lazy THEN openOutstream(t) ELSE t

\* bufferedArrayConfigSchema.validate(args): the value keeps the key pattern
\* in lower case
validate(s) == [s EXCEPT !.keyPattern = lowercase(args)]

\* trim excessive file types at the end of keyPattern
trimKeyPattern(s) == [s EXCEPT !.keyPattern = trimPattern(@)]

\* Mutant of constructor: the append/overwrite check is missing
constructorNoModeCheck(s) ==
    IF ~config.local /\ ~config.bucket
    THEN [trimKeyPattern(validate(s)) EXCEPT !.phase = "threw"]
    ELSE initFields(trimKeyPattern(validate(s)))

\* Mutant of constructor: the bucket check comes after the first open
constructorLateBucketCheck(s) ==
    IF config.append /\ config.overwrite
    THEN [validate(s) EXCEPT !.phase = "threw"]
    ELSE IF ~config.local /\ ~config.bucket
    THEN [initFields(trimKeyPattern(validate(s))) EXCEPT !.phase = "threw"]
    ELSE initFields(trimKeyPattern(validate(s)))

\* The constructor after super(): validation, the append/overwrite check,
\* the trimming of the key pattern, the bucket check, then the fields
constructor(s) ==
    IF config.append /\ config.overwrite
    THEN [validate(s) EXCEPT !.phase = "threw"]
    ELSE IF ~config.local /\ ~config.bucket
    THEN [trimKeyPattern(validate(s)) EXCEPT !.phase = "threw"]
    ELSE initFields(trimKeyPattern(validate(s)))

\* Mutant of endCallback: cb(resolve) without waiting for the upload
endCallbackNoUpload(s, e) == resetOutstreamCb(s, e.final, e.item, e.chunk)

\* outstream.end's callback in resetOutstream
endCallback(s, e) ==
    IF config.local
    THEN resetOutstreamCb(s, e.final, e.item, e.chunk)
    ELSE [s EXCEPT !.pending = Append(@, Entry("upload", e.item, e.chunk, e.final))]

\* this.s3.promise() resolves: the object holds what the PassThrough received
uploadDone(s, e) ==
    resetOutstreamCb([s EXCEPT !.store[s.s3] = File(s.outstream.buf),
                               !.sinkOps = @ + 1],
                     e.final, e.item, e.chunk)

\* this.s3.promise() rejects: resetOutstream calls reject, its closure cb is
\* never run.  The promise _write holds has no rejection handler; the one
\* _final holds passes the error to the Writable, which emits no 'finish'.
uploadFailed(s, e) == [s EXCEPT !.failedItems = @ \cup {e.item}]

\* the continuation of resetOutstream().then in _write
thenWrite(s, e) ==
    IF s.outstream.kind = "null" THEN s ELSE writeItem(s, e.item, e.chunk)

\* the continuation of flushOutstream(true).then in _final: cb(), then 'finish'
finalThen(s) == [s EXCEPT !.finished = TRUE]

---------------------------------------------------------------------------
(* Initial states: the arguments a caller may pass and the target as an   *)
(* earlier writer may have left it.                                        *)

Configs ==
    [local : BOOLEAN, bucket : BOOLEAN, append : BOOLEAN, overwrite : BOOLEAN,
     lazy : BOOLEAN, schema : BOOLEAN, maxItems : 1..MaxItemsBound]

OLD == <<"p">>

EmptyStore == [k \in Keys |-> Absent]

Stores ==
    { EmptyStore,
      [EmptyStore EXCEPT ![0] = File(encodeArray(<<OLD>>))],
      [EmptyStore EXCEPT ![0] = File(encodeArray(<<>>))],
      [EmptyStore EXCEPT ![1] = File(encodeArray(<<OLD>>))] }

\* no TawkifyFormListInput is mounted
NoProps == [required |-> FALSE, disabled |-> FALSE, hasMax |-> FALSE, max |-> 0,
            list |-> <<>>]
NoForm == [list |-> <<>>, input |-> "", err |-> "null", updates |-> 0,
           events |-> 0, last |-> "none"]

\* the key pattern of the runs that vary the configuration and the target
ShardPattern == <<"s", "_", "$", "$", ".", "j", "s", "o", "n">>

\* before the constructor has run
Unconstructed ==
    /\ phase = "new"
    /\ sep = <<>> /\ count = 0 /\ fileCount = 0 /\ key = 0 /\ files = <<>>
    /\ destroyed = FALSE /\ outstream = NoStream /\ s3 = 0
    /\ pending = <<>> /\ writing = FALSE /\ cur = 0
    /\ ending = FALSE /\ finalCalled = FALSE /\ finished = FALSE
    /\ pushed = <<>> /\ completion = <<>> /\ cbCalls = <<>>
    /\ multipleCb = FALSE
    /\ wrote = [k \in Keys |-> <<>>]
    /\ opened = <<>> /\ sinkOps = 0 /\ released = 0 /\ failedItems = {}
    /\ keyPattern = <<>> /\ keyText = <<>> /\ secondClose = "none"

Init ==
    /\ config \in Configs
    /\ config.local => config.bucket
    /\ posixAppend \in BOOLEAN
    /\ (~config.local \/ ~config.append \/ config.overwrite) => posixAppend
    /\ store \in Stores
    /\ store[0] = File(encodeArray(<<>>)) => config.append
    /\ args = ShardPattern
    /\ highWaterMark = HIGH_WATER_MARK
    /\ props = NoProps /\ form = NoForm
    /\ Unconstructed

StallBytes == 4       \* a PassThrough capacity small enough for a shard to reach

\* as Init, with a PassThrough of StallBytes bytes
InitStall ==
    /\ config \in Configs
    /\ config.local => config.bucket
    /\ posixAppend \in BOOLEAN
    /\ (~config.local \/ ~config.append \/ config.overwrite) => posixAppend
    /\ store \in Stores
    /\ store[0] = File(encodeArray(<<>>)) => config.append
    /\ args = ShardPattern
    /\ highWaterMark = StallBytes
    /\ props = NoProps /\ form = NoForm
    /\ Unconstructed

---------------------------------------------------------------------------
(* Actions *)

Construct ==
    /\ phase = "new"
    /\ Becomes(constructor(This))

\* stream.write(chunk): the Writable calls _write when no write is in flight
Write ==
    /\ phase = "live" /\ ~writing /\ ~ending
    /\ Len(pushed) < MaxPush
    /\ \E c \in Chunks : Becomes(_write(This, c))

Close ==
    /\ phase = "live" /\ ~ending
    /\ Becomes(closeArrayStream(This))

\* the Writable calls _final once end() was called and no write is in flight
Final ==
    /\ phase = "live" /\ ending /\ ~writing /\ ~finalCalled
    /\ Becomes(_final(This))

Fire(op) == pending # <<>> /\ Head(pending).op = op

Rest == [This EXCEPT !.pending = Tail(@)]

WriteAck == Fire("write") /\ Becomes(writeCallback(Rest, Head(pending).item))

EndAck == Fire("end") /\ Becomes(endCallback(Rest, Head(pending)))

UploadAck == Fire("upload") /\ Becomes(uploadDone(Rest, Head(pending)))

ThenWrite == Fire("then") /\ Becomes(thenWrite(Rest, Head(pending)))

FinalThen == Fire("finalThen") /\ Becomes(finalThen(Rest))

Next ==
    \/ Construct
    \/ Write
    \/ Close
    \/ Final
    \/ WriteAck
    \/ EndAck
    \/ UploadAck
    \/ ThenWrite
    \/ FinalThen

Spec == Init /\ [][Next]_vars

\* The managed upload fails: this.s3.promise() rejects
UploadFail == Fire("upload") /\ Becomes(uploadFailed(Rest, Head(pending)))

NextFail == Next \/ UploadFail

\* The writer with uploads that may fail
SpecFail == Init /\ [][NextFail]_vars

\* User code calls closeArrayStream() a second time
CloseAgain ==
    /\ phase = "live" /\ ending /\ secondClose = "none"
    /\ Becomes(closeArrayStreamAgain(This))

NextReclose == Next \/ CloseAgain

\* The writer closed twice
SpecReclose == Init /\ [][NextReclose]_vars

\* the writer with a PassThrough whose capacity its shards can reach
SpecStall == InitStall /\ [][Next]_vars

\* User code calls flushOutstream(true) on the live writer instead of
\* closeArrayStream(); a second call finds destroyed set and returns a
\* resolved promise.
Flush ==
    /\ phase = "live" /\ ~ending /\ ~destroyed
    /\ Becomes(flushOutstream(This, TRUE, -1))

\* the caller's continuation of flushOutstream(true): nothing of the writer
FlushThen == Fire("flushThen") /\ Becomes(Rest)

NextClosed == Next \/ Flush \/ FlushThen

InitClosed == Init /\ ~config.schema /\ config.bucket /\ posixAppend

\* The writer closed through flushOutstream(true) and written to afterwards
SpecClosed == InitClosed /\ [][NextClosed]_vars


---------------------------------------------------------------------------
(* The key text alone: the patterns a caller may pass and the values of  *)
(* fileCount at which incrementKey runs.                                   *)

MaxExt == 2           \* trailing '.json' repeated up to this many times

Bases ==
    { <<"s", "$", "$">>,
      <<"S", "_", "$", "$">>,
      <<"s", "$", "$", "x">>,
      <<"s", "$", "$", "$", "$">>,
      <<"s", "$", "$", "j", "s", "o", "n">> }

RECURSIVE withExt(_, _)
withExt(p, n) ==
    IF n = 0 THEN p ELSE withExt(p, n - 1) \o <<".">> \o fileType

PatternsTried == {withExt(b, n) : b \in Bases, n \in 0..MaxExt}

Indices == {0, 1, 9, 10, 99, 100, 999, 1000, 9999, 10000, 10001}

InitKey ==
    /\ config = [local |-> TRUE, bucket |-> TRUE, append |-> FALSE,
                 overwrite |-> FALSE, lazy |-> TRUE, schema |-> FALSE,
                 maxItems |-> 1]
    /\ posixAppend = TRUE
    /\ store = EmptyStore
    /\ args \in PatternsTried
    /\ highWaterMark = HIGH_WATER_MARK
    /\ props = NoProps /\ form = NoForm
    /\ Unconstructed

\* the call of incrementKey (rotation, probe) that finds fileCount = n; the
\* calls before it are not shown
IncrementKey ==
    /\ phase = "live"
    /\ \E n \in Indices :
          n >= fileCount /\ Becomes(incrementKey([This EXCEPT !.fileCount = n]))

NextKey == Construct \/ IncrementKey

SpecKey == InitKey /\ [][NextKey]_vars

---------------------------------------------------------------------------
(* TawkifyFormListInput (src/src/components/TawkifyFormListInput.js): the  *)
(* list, input and err state of the component and its three handlers.     *)
(* Indices are 1-based here, 0-based in the source.                        *)

FormMax == 2          \* largest max prop tried
FormSteps == 4        \* events delivered to one mounted component

\* the texts typed: empty, one blank, two words
Texts == {"", " ", "x", "y"}

\* String.prototype.trim() on the texts tried
trim(v) == IF v = " " THEN "" ELSE v

\* setList(newList); if (update) update(newList)
setAndUpdate(f, newList) == [f EXCEPT !.list = newList, !.updates = @ + 1]

\* Mutant of handleKeyDown: the max check is missing
handleKeyDownNoMax(f, k) ==
    IF k # "Enter" THEN f
    ELSE IF trim(f.input) = "" /\ props.required
    THEN [f EXCEPT !.err = "Input cannot be empty"]
    ELSE setAndUpdate([f EXCEPT !.err = "null", !.input = ""],
                      Append(f.list, f.input))

\* Mutant of handleKeyDown: the input is tested without trim()
handleKeyDownNoTrim(f, k) ==
    IF k # "Enter" THEN f
    ELSE IF f.input = "" /\ props.required
    THEN [f EXCEPT !.err = "Input cannot be empty"]
    ELSE IF props.hasMax /\ Len(f.list) >= props.max
    THEN [f EXCEPT !.err = "List has a max length of"]
    ELSE setAndUpdate([f EXCEPT !.err = "null", !.input = ""],
                      Append(f.list, f.input))

\* list.length >= max is false when max is undefined
handleKeyDown(f, k) ==
    IF k # "Enter" THEN f
    ELSE IF trim(f.input) = "" /\ props.required
    THEN [f EXCEPT !.err = "Input cannot be empty"]
    ELSE IF props.hasMax /\ Len(f.list) >= props.max
    THEN [f EXCEPT !.err = "List has a max length of"]
    ELSE setAndUpdate([f EXCEPT !.err = "null", !.input = ""],
                      Append(f.list, f.input))

\* list.filter((e, i) => i !== idx)
removeAt(l, idx) == SubSeq(l, 1, idx - 1) \o SubSeq(l, idx + 1, Len(l))

handleListRemove(f, idx) ==
    IF props.disabled
    THEN [f EXCEPT !.err = "Editing this list is disabled"]
    ELSE setAndUpdate(f, removeAt(f.list, idx))

\* result.destination = 0 stands for a drop outside the list (null)
handleListReorder(f, result) ==
    IF result.destination = 0 THEN f
    ELSE IF props.disabled
    THEN [f EXCEPT !.err = "Reordering this list is disabled"]
    ELSE LET items == removeAt(f.list, result.source)
             d == result.destination
         IN  setAndUpdate(f, SubSeq(items, 1, d - 1) \o <<f.list[result.source]>>
                                \o SubSeq(items, d, Len(items)))

InitialLists == {<<>>, <<"x">>, <<"x", "y">>}

PropsTried ==
    {q \in [required : BOOLEAN, disabled : BOOLEAN, hasMax : BOOLEAN,
            max : 0..FormMax, list : InitialLists] : ~q.hasMax => q.max = 0}

\* the first render: useState(_list), useState(''), useState(null)
InitForm ==
    /\ config = [local |-> TRUE, bucket |-> TRUE, append |-> FALSE,
                 overwrite |-> FALSE, lazy |-> TRUE, schema |-> FALSE,
                 maxItems |-> 1]
    /\ posixAppend = TRUE /\ store = EmptyStore /\ args = ShardPattern
    /\ highWaterMark = HIGH_WATER_MARK
    /\ Unconstructed
    /\ props \in PropsTried
    /\ form = [NoForm EXCEPT !.list = props.list, !.last = "mount"]

\* the handler ran on event e: one more event delivered
Handled(f, e) ==
    /\ form' = [f EXCEPT !.events = @ + 1, !.last = e]
    /\ UNCHANGED <<config, posixAppend, phase, sep, count, fileCount, key,
                   files, destroyed, outstream, s3, store, pending, writing,
                   cur, ending, finalCalled, finished, pushed, completion,
                   cbCalls, multipleCb, wrote, opened, sinkOps, released,
                   failedItems, args, keyPattern, keyText, secondClose,
                   highWaterMark, props>>

\* onChange: setInput(e.target.value)
Change ==
    /\ form.events < FormSteps
    /\ \E v \in Texts : Handled([form EXCEPT !.input = v], "change")

KeyDown ==
    /\ form.events < FormSteps
    /\ \E k \in {"Enter", "a"} :
          Handled(handleKeyDown(form, k), IF k = "Enter" THEN "enter" ELSE "key")

\* a click on the remove button of item idx
Remove ==
    /\ form.events < FormSteps
    /\ \E idx \in 1..Len(form.list) :
          Handled(handleListRemove(form, idx), "remove")

\* onDragEnd of a drag of item source
Reorder ==
    /\ form.events < FormSteps
    /\ \E source \in 1..Len(form.list), destination \in 0..Len(form.list) :
          Handled(handleListReorder(form, [source |-> source,
                                           destination |-> destination]),
                  IF destination = 0 THEN "dropout" ELSE "reorder")

NextForm == Change \/ KeyDown \/ Remove \/ Reorder

SpecForm == InitForm /\ [][NextForm]_vars

---------------------------------------------------------------------------
(* Vocabulary of the properties *)

maxItems == config.maxItems

Items == 1..Len(pushed)

Shards == 1..Len(files)

Range(q) == {q[j] : j \in 1..Len(q)}

\* an item the validation schema rejects
Rejected(i) == config.schema /\ validateChunk(pushed[i])

\* an item that passes validation and on which JSON.stringify throws
Unserializable(i) == ~Rejected(i) /\ ~isString(pushed[i]) /\ stringifyThrows(pushed[i])

\* the items whose completion reported success, in push order
AcceptedItems == SelectSeq([i \in Items |-> i], LAMBDA i : completion[i] = "ok")

chunksOf(q) == [j \in 1..Len(q) |-> pushed[q[j]]]

Min(a, b) == IF a < b THEN a ELSE b

\* the i-th block of maxItems accepted items
Block(i) == SubSeq(AcceptedItems, (i - 1) * maxItems + 1, Min(i * maxItems, Len(AcceptedItems)))

\* no callback is waiting and no write is in flight
Quiescent == phase = "live" /\ ~writing /\ pending = <<>>

CreateMode == ~config.append /\ ~config.overwrite

\* a step in which _write receives a chunk
PushStep == Len(pushed') = Len(pushed) + 1

\* a step in which _write receives a chunk the validation schema rejects
RejectedPush == PushStep /\ config.schema /\ validateChunk(pushed'[Len(pushed')])

---------------------------------------------------------------------------
(* Properties *)

\* C1: N items pushed to a writer with maxItems = k and then closed give
\* exactly ceil(N/k) shards, none of which received more than k items.  Read
\* for a writer without validation schema that received at least one item or
\* opens lazily (a writer opened eagerly holds one shard before any item).
C1_ShardCount ==
    (finished /\ ~config.schema /\ (config.lazy \/ pushed # <<>>))
    => /\ Len(files) = Ceil(Len(pushed), maxItems)
       /\ \A key_ \in Keys : Len(wrote[key_]) <= maxItems

\* C2: once closed, every shard the writer wrote holds '[', the comma-joined
\* serialized items written to it and ']\n', on both backends (stated for
\* shards that are not reopened in append mode).
C2_ShardFormat ==
    (finished /\ ~config.append)
    => \A i \in Shards :
          store[files[i]] = File(encodeArray(texts(chunksOf(wrote[files[i]]))))

\* C3: once closed, shard i decodes to the i-th block of the accepted items in
\* push order, and the shards together hold every accepted item.
C3_SubmissionOrder ==
    (finished /\ ~config.append)
    => /\ Len(files) >= Ceil(Len(AcceptedItems), maxItems)
       /\ \A i \in Shards :
             store[files[i]] = File(encodeArray(texts(chunksOf(Block(i)))))

\* C4: when every write has completed, getTotalCount() is the number of items
\* whose write completed successfully.
C4_TotalCount ==
    Quiescent => getTotalCount(This) = Len(AcceptedItems)

C6_SerializationScoped ==
    \A i \in Items :
       Unserializable(i)
       => /\ cbCalls[i] <= 1
          /\ \A key_ \in Keys : i \notin Range(wrote[key_])

\* C7: in local append mode a shard file that existed as a valid array holds,
\* once the writer has finished, the old items followed by the new ones.
C7_AppendWellFormed ==
    (finished /\ config.local /\ config.append)
    => \A i \in Shards :
          opened[i].existed
          => \E old \in {<<>>, <<OLD>>} :
                store[files[i]] =
                   File(encodeArray(old \o texts(chunksOf(wrote[files[i]]))))

\* C8: in create mode no key the writer opens existed in the target when it
\* was opened, on either backend.
C8_NoClobber ==
    CreateMode => \A i \in 1..Len(opened) : ~opened[i].existed

\* C9: with append and overwrite both set the constructor throws before any
\* sink operation.
C9_AppendOverwriteRejected ==
    (config.append /\ config.overwrite /\ phase # "new")
    => /\ phase = "threw"
       /\ sinkOps = 0 /\ opened = <<>> /\ files = <<>>
       /\ outstream = NoStream /\ store \in Stores

C9_Witness ==
    phase = "threw" /\ config.append /\ config.overwrite /\ ~config.lazy

\* C10: with local = false and no bucket the constructor throws with no sink
\* operation performed.
C10_MissingBucketRejected ==
    (~config.local /\ ~config.bucket /\ phase # "new")
    => /\ phase = "threw"
       /\ sinkOps = 0 /\ opened = <<>> /\ files = <<>>
       /\ outstream = NoStream /\ store \in Stores

C10_Witness ==
    /\ phase = "threw" /\ ~config.local /\ ~config.bucket /\ ~config.lazy
    /\ ~(config.append /\ config.overwrite)

\* C11: once destroyed the writer stays destroyed, and a write it receives
\* afterwards completes at once and does nothing else: no sink is opened, no
\* byte is written, no callback is registered, and count, files and key keep
\* their values.
C11_ClosedWriteNoOp ==
    [][/\ destroyed => destroyed'
       /\ (PushStep /\ destroyed)
            => /\ completion' = Append(completion, "ok")
               /\ cbCalls' = Append(cbCalls, 1)
               /\ opened' = opened /\ outstream' = outstream
               /\ store' = store /\ wrote' = wrote /\ pending' = pending
               /\ count' = count /\ files' = files /\ key' = key]_vars

\* C12: once the opening, writing or closing of a sink has failed the writer
\* is destroyed.
C12_FailureIsFatal == failedItems # {} => destroyed

\* C13: after end-of-input ('finish') and after a failed sink close alike the
\* writer holds no sink and every sink it opened has been released.
C13_SinkReleased ==
    (finished \/ failedItems # {})
    => outstream = NoStream /\ released = Len(opened)

\* the item writes and rotations that have started and are not acknowledged
InFlight ==
    {j \in 1..Len(pending) :
        pending[j].op \in {"write", "end", "upload", "then"} /\ ~pending[j].final}

\* C14: at most one item write or rotation is in flight: the writer starts
\* nothing for the next item before the write of the previous one, or the
\* rotation it triggered, has been acknowledged.
C14_OneInFlight == Cardinality(InFlight) <= 1

\* C16: the number of items in the current shard never exceeds maxItems.
C16_CountBounded == 0 <= count /\ count <= maxItems

\* the callback registered last in the step
Newest == pending'[Len(pending')]

\* a step in which the promise of a resetOutstream call resolves: its
\* continuation is queued
ResolveStep ==
    /\ pending' # <<>> /\ pending' # pending
    /\ Newest.op \in {"then", "finalThen", "flushThen"}
    /\ \/ pending' = Append(pending, Newest)
       \/ pending # <<>> /\ pending' = Append(Tail(pending), Newest)

\* C15: in remote mode the promise of a sink close (rotation or
\* end-of-input) resolves only in the step in which the managed upload is
\* acknowledged, for the caller that started the close and with the object
\* in the bucket; a close whose upload fails never resolves, and when it is
\* the close of end-of-input the writer never emits 'finish'.
C15_ResolveAfterUpload ==
    [][/\ (~config.local /\ ResolveStep /\ outstream.kind # "null")
            => /\ Fire("upload") /\ Head(pending).item = Newest.item
               /\ failedItems' = failedItems
               /\ store'[s3].exists
       /\ failedItems' # failedItems
            => ~ResolveStep /\ pending' = Tail(pending)
       /\ 0 \in failedItems' => ~finished']_vars

\* C15 witness: the rotation resolved after its upload and the item that
\* triggered it was written to the second shard; the upload of end-of-input
\* failed and the writer has not finished
C15_Witness ==
    /\ ~config.local /\ failedItems = {0} /\ ~finished /\ pending = <<>>
    /\ Len(files) = 2 /\ store[files[1]].exists /\ wrote[files[2]] # <<>>

\* sinks opened and not released
OpenSinks == Len(opened) - released

\* a step in which a sink is opened
OpenStep == Len(opened') > Len(opened)

\* C17: at most one sink is open, and a step that opens a sink while the
\* writer holds one is a step in which a sink close completes (the end
\* callback locally, the upload acknowledgement remotely) and which releases
\* the held sink before it opens the new one.
C17_OneSinkOpen ==
    [][/\ Len(opened') - released' <= 1
       /\ (OpenStep /\ outstream.kind # "null")
            => /\ Fire(IF config.local THEN "end" ELSE "upload")
               /\ released' = released + 1]_vars

\* C17 witness: a rotation has released the first sink and opened the second
C17_Witness ==
    /\ Len(opened) = 2 /\ released = 1 /\ OpenSinks = 1
    /\ outstream.kind # "null" /\ outstream.key = files[2]

\* C18: getFilePaths() lists, in order, exactly the keys a sink was opened
\* on, the current one included; a key the local create-mode probe found
\* taken and skipped is not among them.
C18_FilesAreOpenedShards ==
    /\ Len(files) = Len(opened)
    /\ \A i \in Shards : files[i] = opened[i].key
    /\ (CreateMode /\ config.local) => \A i \in Shards : ~opened[i].existed

\* C18 witness: the probe skipped key 0, two shards were opened after it
C18_Witness ==
    /\ CreateMode /\ config.local /\ finished
    /\ store[0] = File(encodeArray(<<OLD>>)) /\ files = <<1, 2>>

\* C19: as long as no item has been pushed, a lazy writer has opened no
\* sink, lists no file and has not touched the target, also after it was
\* closed; a writer with lazy = false has opened exactly one sink.
C19_LazyOpen ==
    (phase = "live" /\ pushed = <<>>)
    => IF config.lazy
       THEN /\ opened = <<>> /\ files = <<>> /\ outstream = NoStream
            /\ sinkOps = 0 /\ store \in Stores
       ELSE Len(opened) = 1 /\ Len(files) = 1

\* C19 witness: a lazy writer closed without having received an item
C19_Witness == config.lazy /\ finished /\ pushed = <<>> /\ destroyed

\* the key a writer constructed with pattern p gives to shard index n
keyOf(p, n) == formatKey(trimPattern(lowercase(p)), n)

RECURSIVE valueOf(_)
\* the number a string of decimal digits denotes, -1 if it is none
valueOf(d) ==
    IF d = <<>> THEN 0
    ELSE LET last == d[Len(d)]
             v == valueOf(SubSeq(d, 1, Len(d) - 1))
         IN  IF v < 0 \/ ~(\E x \in 0..9 : Digits[x + 1] = last) THEN -1
             ELSE 10 * v + (CHOOSE x \in 0..9 : Digits[x + 1] = last)

\* text is pattern p with its first '$$' replaced by the numeral of n,
\* zero-padded to at least 4 digits, followed by '.' and the file type
IsKeyOf(text, p, n) ==
    \E j \in placeholders(p) :
       LET w == Len(text) - (Len(p) - 2) - 1 - Len(fileType)
           d == SubSeq(text, j, j + w - 1)
       IN  /\ \A y \in placeholders(p) : j <= y
           /\ w >= 4 /\ valueOf(d) = n /\ (w > 4 => d[1] # "0")
           /\ text = SubSeq(p, 1, j - 1) \o d \o SubSeq(p, j + 2, Len(p))
                        \o <<".">> \o fileType

\* C20: the key of shard index i is the writer's key pattern with '$$'
\* replaced by i zero-padded to at least 4 digits, then '.' and the file
\* type; the pattern passed with one more trailing '.json' gives the same
\* key for i, and no other index tried gives this key.
C20_KeyFormat ==
    phase = "live"
    => LET i == fileCount - 1
       IN  /\ IsKeyOf(keyText, keyPattern, i)
           /\ keyOf(args \o <<".">> \o fileType, i) = keyText
           /\ \A n \in Indices : n # i => keyOf(args, n) # keyText

\* a step in which Enter is pressed in the input
EnterStep == form'.events = form.events + 1 /\ form'.last = "enter"

\* a step in which a remove click or a drop on the list is handled
EditStep ==
    /\ form'.events = form.events + 1
    /\ form'.last \in {"remove", "reorder"}

\* C21: with a max prop and an initial list of at most max items the list
\* never holds more than max items, and Enter pressed on a list of max items
\* or more changes neither the list nor the count of update calls and sets
\* an error.
C21_MaxRespected ==
    [][(props.hasMax /\ Len(props.list) <= props.max)
        => /\ Len(form'.list) <= props.max
           /\ (EnterStep /\ Len(form.list) >= props.max)
                => /\ form'.list = form.list
                   /\ form'.updates = form.updates
                   /\ form'.err # "null"]_vars

\* C21 witness: the list was filled up to max = 2 by two adds and a third
\* Enter was refused
C21_Witness ==
    /\ props.hasMax /\ props.max = 2 /\ props.list = <<>> /\ ~props.required
    /\ Len(form.list) = 2 /\ form.updates = 2 /\ form.last = "enter"
    /\ form.err = "List has a max length of"

\* C22: with the disabled prop every attempt to modify the list (Enter in
\* the input, a remove click, a drop on the list) leaves the list unchanged
\* and sets an error.
C22_DisabledRefuses ==
    [][(props.disabled /\ (EnterStep \/ EditStep))
        => form'.list = form.list /\ form'.err # "null"]_vars

\* C23: with the required prop, Enter on an empty or blank input changes
\* neither the list, the input nor the count of update calls and sets the
\* error 'Input cannot be empty'; an Enter that changes the list appends
\* the input, which is not blank.
C23_RequiredRefusesEmpty ==
    [][(props.required /\ EnterStep)
        => /\ trim(form.input) = ""
                => /\ form'.list = form.list /\ form'.input = form.input
                   /\ form'.updates = form.updates
                   /\ form'.err = "Input cannot be empty"
           /\ form'.list # form.list
                => /\ form'.list = Append(form.list, form.input)
                   /\ trim(form.input) # ""]_vars

\* C23 witness: after an add, Enter on a blank input was refused
C23_Witness ==
    /\ props.required /\ form.last = "enter" /\ form.input = " "
    /\ form.err = "Input cannot be empty"
    /\ form.list = Append(props.list, "y") /\ form.updates = 1

\* a step in which the continuation of a rotation writes the item that
\* triggered it
RotationWriteStep ==
    /\ Fire("then")
    /\ \E key_ \in Keys : wrote'[key_] = Append(wrote[key_], Head(pending).item)

\* the shard opened before the current one was closed with ']\n'
PreviousShardClosed ==
    /\ Len(files) >= 2
    /\ endsWith(store[files[Len(files) - 1]].data, CLOSE_BRACKET)

\* C24: when the item that triggered a rotation is written, the old shard
\* has been closed with ']\n', the writer holds the sink of the current key,
\* count is 0 and the separator is cleared, and the item goes into the new
\* shard as its first item with no separator before it (stated for writers
\* that do not append to existing shards).
C24_RotationOrder ==
    [][(RotationWriteStep /\ ~config.append)
        => /\ PreviousShardClosed
           /\ outstream.key = key /\ count = 0 /\ sep = <<>>
           /\ wrote[key] = <<>>
           /\ wrote'[key] = <<Head(pending).item>>
           /\ config.local
                => store'[key].data = OPEN_BRACKET \o convert(Head(pending).chunk)
           /\ ~config.local
                => outstream'.buf = convert(Head(pending).chunk)]_vars

\* C25: once no callback is left to run, the write whose rotation failed
\* has been completed with an error and the writer is destroyed.
C25_RotationFailureSurfaced ==
    \A i \in failedItems :
       (i > 0 /\ pending = <<>>) => completion[i] = "err" /\ destroyed

\* the promise of the second closeArrayStream() call has resolved
SecondCloseResolved ==
    secondClose = "resolved" \/ (secondClose = "onFinish" /\ finished)

\* C26: a second closeArrayStream() adds no bytes and its promise does not
\* resolve before the first close has finished: the closing bracket is in
\* the current shard and the sink is released.
C26_SecondCloseWaits ==
    SecondCloseResolved => finished /\ outstream = NoStream

\* C27: in append mode and in overwrite mode the i-th sink the writer opens
\* is on the key of index i - 1, whatever the target held.
C27_NoProbing ==
    (config.append \/ config.overwrite)
    => \A i \in 1..Len(opened) : opened[i].key = i - 1

\* C28: a local overwrite writer that has finished leaves in every shard
\* file '[', the items it wrote there joined by commas, and ']\n', with
\* nothing of what the file held before.
C28_OverwriteTruncates ==
    (finished /\ config.local /\ config.overwrite)
    => \A i \in Shards :
          store[files[i]] = File(encodeArray(texts(chunksOf(wrote[files[i]]))))

\* C29: the cb argument of every _write call is invoked at most once, and
\* exactly once when no callback of the writer is outstanding any more.
C29_CallbackExactlyOnce ==
    \A i \in Items :
       /\ cbCalls[i] <= 1
       /\ pending = <<>> => cbCalls[i] = 1

\* C30: the write of a pushed item never waits on something that cannot
\* happen before close: while an item's completion is pending, a callback
\* of the writer is outstanding.
C30_WritesComplete ==
    \A i \in Items : completion[i] = "pending" => pending # <<>>

===========================================================================
